---- MODULE Spec2Model ----
(***************************************************************************)
(* Idempotency utility of aws-lambda-powertools (python).                  *)
(*                                                                         *)
(* The model follows                                                       *)
(*   aws_lambda_powertools/utilities/idempotency/idempotency.py            *)
(*     idempotent (the retry loop) and IdempotencyHandler                  *)
(*   aws_lambda_powertools/utilities/idempotency/persistence/redis.py      *)
(*     RedisCachePersistenceLayer                                          *)
(* Several client calls (invocations of the decorated lambda handler and   *)
(* direct calls of the persistence layer, as the functional tests make     *)
(* them) run against one shared store.  Every Redis command is one atomic  *)
(* step; the code between two commands belongs to the step of the command  *)
(* that follows it.                                                        *)
(*                                                                         *)
(* persistence/base.py (BasePersistenceLayer, DataRecord) and the          *)
(* conditional-write (DynamoDB) backend are not part of the sources; what  *)
(* the model needs of them is taken from the specification and is marked   *)
(* as such.                                                                *)
(*                                                                         *)
(* The last sections follow the resolver of                                *)
(*   aws_lambda_powertools/event_handler/appsync.py                        *)
(* Each of its operations is synchronous and is one step.                  *)
(***************************************************************************)
EXTENDS Integers, Sequences, FiniteSets, TLC

(***************************************************************************)
(* Bounds of the model.                                                    *)
(***************************************************************************)
\* number of concurrent clients
NumProcs == 2
\* number of distinct event payloads
NumPayloads == 1
\* number of distinct values the wrapped function may return
NumResults == 2
\* the clock runs from 0 to MaxTime
MaxTime == 4
\* expires_after_seconds, in clock ticks
ExpiresAfter == 3
\* remaining execution time handed to save_inprogress by a direct call, in ticks
RemainingTime == 1

\* number of distinct payload parts covered by payload validation
NumBodies == 2

\* number of distinct functions wrapped by the decorator
NumFunctions == 2

\* number of distinct field names of AppSync events
NumFields == 3
\* largest number of events in a batch
MaxBatch == 2
\* number of distinct keys of the router context
NumContextKeys == 2

\* number of distinct metric names
NumMetricNames == 3
\* constants.MAX_METRICS, 100 in the program ("CloudWatch EMF can create up
\* to 100 metrics per EMF object"), scaled down
MAX_METRICS == 3
\* number of distinct dimension names besides "service"
NumDimensions == 1
\* constants.MAX_DIMENSIONS, scaled down
MAX_DIMENSIONS == 1

\* largest number of routes registered with an ApiGatewayResolver
MaxRoutes == 2
\* largest length of a request path
MaxPath == 2

\* idempotency.py:76
max_handler_retries == 2

Procs == 1 .. NumProcs
Payloads == 1 .. NumPayloads
Results == 1 .. NumResults
Bodies == 1 .. NumBodies
Functions == 1 .. NumFunctions

\* the event in which the key selector finds nothing
NoKeyData == 0

(***************************************************************************)
(* Names.                                                                  *)
(***************************************************************************)
INPROGRESS == "INPROGRESS"
COMPLETED == "COMPLETED"
EXPIRED == "EXPIRED"

in_progress_expiry_attr == "in_progress_expiration"
status_attr == "status"
data_attr == "data"
expiry_attr == "expiration"
validation_key_attr == "validation"

ItemAlreadyExistsError == "IdempotencyItemAlreadyExistsError"
ItemNotFoundError == "IdempotencyItemNotFoundError"
InconsistentStateError == "IdempotencyInconsistentStateError"
AlreadyInProgressError == "IdempotencyAlreadyInProgressError"
PersistenceLayerError == "IdempotencyPersistenceLayerError"
ValidationError == "IdempotencyValidationError"
IdempotencyKeyError == "IdempotencyKeyError"
PyKeyError == "KeyError"
RedisError == "RedisError"
HandlerException == "HandlerException"
\* no exception: the call returned
Returned == "returned"

\* the calls a client makes: the decorated handler, or one operation of the
\* persistence layer called directly
Kinds == {"idempotent", "save_inprogress", "get_record", "delete_record"}

\* the two persistence backends
Redis == "redis"
ConditionalWrite == "conditional_write"

(***************************************************************************)
(* Serialization of the handler's response (json dumps / loads of an       *)
(* integer) and python's str().                                            *)
(***************************************************************************)
Digits == <<"1", "2", "3", "4">>

JsonDumps(r) == Digits[r]

JsonLoads(s) == CHOOSE r \in 1 .. Len(Digits) : Digits[r] = s

\* python's None, which is not the text "None"
PyNone == "NoneType"

\* item.get(attr): the value, or None when the attribute is missing
ItemGet(item, attr) == IF attr \in DOMAIN item THEN item[attr] ELSE PyNone

\* str(item.get(attr)); str(None) is the text "None"
StrGet(item, attr) == IF attr \in DOMAIN item THEN item[attr] ELSE "None"

\* the hash of the payload part covered by payload validation
HashDigests == <<"h1", "h2", "h3", "h4">>

(***************************************************************************)
(* Idempotency key: function identity '#' hash of the payload.             *)
(***************************************************************************)
\* what the persistence layer is told of the wrapped function f:
\* IdempotencyHandler.__init__ calls persistence_store.configure(config) and
\* the operations are given the event only, so it is the same for every f
FunctionName(f) == "test-func.lambda_handler"

IdempotencyKeyOf(f, e) == <<FunctionName(f), e>>

IdempotencyKey(e) == IdempotencyKeyOf(1, e)

Keys == {IdempotencyKey(e) : e \in Payloads}

(***************************************************************************)
(* State.                                                                  *)
(***************************************************************************)
VARIABLES
    backend,    \* which persistence layer the clients use
    config,     \* IdempotencyConfig of the layer and the setting of its client
    body,       \* client -> the part of its payload covered by payload validation
    function,   \* client -> the function its decorated handler wraps
    now,        \* the clock
    store,      \* key -> item (a mapping attribute -> value; empty: no item)
    ttl,        \* key -> deadline set by EXPIRE, or -1 when the key has none
    pc,         \* client -> where its call stands
    kind,       \* client -> the call it makes
    event,      \* client -> the payload of its call
    attempt,    \* client -> number of the running handle() attempt (i + 1)
    invoked,    \* client -> times the wrapped function ran in this call
    response,   \* client -> handler_response of _call_lambda_handler
    handler_exception, \* client -> exception the latest run of the wrapped
                \* function raised, "" when it returned or has not run
    met,        \* client -> what the check of save_inprogress found for the key
    seen,       \* client -> what get_record found for the key
    lastExc,    \* client -> exception that ended the latest handle() attempt
    in_progress_expiry, \* client -> in_progress_expiry_timestamp of its record, 0: None
    outcome,    \* client -> how the call ended: [type, value, cause]
    removed,    \* client -> the key's item was removed since the call began
    released,   \* keys whose item delete_record removed, not written since
    layerExc,   \* client -> exception its latest operation of the layer raised,
                \* "" when it returned
    appsync,    \* the AppSyncResolver, its router and its latest resolve()
    metrics,    \* the AmazonCloudWatchEMFProvider and its decorated handler
    api         \* the ApiGatewayResolver and its latest resolve()

vars == <<backend, config, body, function, now, store, ttl, pc, kind, event, attempt, invoked, response,
          handler_exception,
          met, seen, lastExc, in_progress_expiry, outcome, removed, released,
          layerExc, appsync, metrics, api>>

\* the state of the idempotency utility
idempotencyVars ==
    <<backend, config, body, function, now, store, ttl, pc, kind, event,
      attempt, invoked, response, handler_exception, met, seen, lastExc,
      in_progress_expiry, outcome, removed, released, layerExc>>

\* the state of the other utilities
elsewhere == <<appsync, metrics, api>>

\* what the operations of each of the other utilities leave alone
exceptAppSync == <<idempotencyVars, metrics, api>>
exceptMetrics == <<idempotencyVars, appsync, api>>
exceptApi == <<idempotencyVars, appsync, metrics>>

NoItem == [a \in {} |-> 0]

NoTTL == 0 - 1

NoOutcome == [type |-> "", value |-> 0, cause |-> ""]

Exists(item) == Cardinality(DOMAIN item) > 0

KeyOf(p) == IdempotencyKeyOf(function[p], event[p])

\* IdempotencyConfig() and a client with decode_responses=True
DefaultConfig ==
    [payload_validation_enabled |-> FALSE,
     raise_on_no_idempotency_key |-> FALSE,
     decode_responses |-> TRUE,
     function_raises |-> {HandlerException}]

\* IdempotencyConfig(raise_on_no_idempotency_key=True)
RaisingConfig ==
    [payload_validation_enabled |-> FALSE,
     raise_on_no_idempotency_key |-> TRUE,
     decode_responses |-> TRUE,
     function_raises |-> {HandlerException}]

\* payload validation and raise_on_no_idempotency_key=True
StrictConfig ==
    [payload_validation_enabled |-> TRUE,
     raise_on_no_idempotency_key |-> TRUE,
     decode_responses |-> TRUE,
     function_raises |-> {HandlerException}]

\* raise_on_no_idempotency_key=True, and a wrapped function that may raise
\* IdempotencyInconsistentStateError itself (it calls an idempotent function
\* of its own, whose exception it lets through)
NestedConfig ==
    [RaisingConfig EXCEPT
        !.function_raises = {HandlerException, InconsistentStateError}]

\* IdempotencyConfig() and a client of either decode_responses setting
ClientConfigs ==
    {[DefaultConfig EXCEPT !.decode_responses = d] : d \in BOOLEAN}

\* the payloads the clients send: without raise_on_no_idempotency_key the
\* events that lack the key are left out
EventsOf(c) ==
    Payloads \cup (IF c.raise_on_no_idempotency_key THEN {NoKeyData} ELSE {})

BodiesOf(c) == IF c.payload_validation_enabled THEN Bodies ELSE {1}

(***************************************************************************)
(* BasePersistenceLayer: key derivation and payload validation.            *)
(***************************************************************************)
IsMissingIdempotencyKey(e) == e = NoKeyData

\* _get_hashed_idempotency_key raises IdempotencyKeyError
HashedIdempotencyKeyRaises(e) ==
    IsMissingIdempotencyKey(e) /\ config.raise_on_no_idempotency_key

\* _get_hashed_payload: "" when payload validation is off
HashedPayload(b) ==
    IF config.payload_validation_enabled THEN HashDigests[b] ELSE ""

\* _validate_payload raises IdempotencyValidationError
ValidatePayloadRaises(data_hash, payload_hash) ==
    config.payload_validation_enabled /\ payload_hash # data_hash

(***************************************************************************)
(* RedisCachePersistenceLayer.__init__                                     *)
(***************************************************************************)
\* raises IdempotencyRedisClientConfigError
RedisLayerInitRaises(decode_responses) == ~decode_responses

\* the persistence layer was constructed
Constructed ==
    backend = Redis => ~RedisLayerInitRaises(config.decode_responses)

(***************************************************************************)
(* Redis commands.                                                         *)
(***************************************************************************)
\* DEL that leaves the key in place
Delete_KeepsItem(item) == item

\* DEL: the key is gone
Delete(item) == NoItem

\* HGETALL: the hash stored at the key, {} when there is none
Hgetall(k) == store[k]

\* HSET name mapping: sets the given fields of the hash, creating the key
Hset(item, mapping) ==
    [a \in (DOMAIN item) \cup (DOMAIN mapping) |->
        IF a \in DOMAIN mapping THEN mapping[a] ELSE item[a]]

\* EXPIRE name time: sets the deadline of an existing key
Expire(k, time) == IF Exists(store[k]) THEN now + time ELSE ttl[k]

(***************************************************************************)
(* RedisCachePersistenceLayer._put_record                                  *)
(***************************************************************************)
\* the mapping written by _put_record; expiry = 0: the data record has no
\* in_progress_expiry_timestamp
PutRecordMapping(expiry) ==
    IF expiry # 0
    THEN [status |-> INPROGRESS, in_progress_expiration |-> expiry]
    ELSE [status |-> INPROGRESS]

\* if self.payload_validation_enabled: the mapping also holds the payload hash
WithValidation(mapping, payload_hash) ==
    IF config.payload_validation_enabled
    THEN Hset(mapping, [validation |-> payload_hash])
    ELSE mapping

\* the checks without the one of the COMPLETED status
PutRecordRaises_IgnoresCompleted(idempotency_record, t) ==
    /\ Cardinality(DOMAIN idempotency_record) > 0
    /\ in_progress_expiry_attr \in DOMAIN idempotency_record
    /\ idempotency_record[in_progress_expiry_attr] > t

\* the checks without the comparison of in_progress_expiry with the clock
PutRecordRaises_IgnoresClock(idempotency_record, t) ==
    /\ Cardinality(DOMAIN idempotency_record) > 0
    /\ \/ idempotency_record[status_attr] = COMPLETED
       \/ in_progress_expiry_attr \in DOMAIN idempotency_record

\* the checks that raise IdempotencyItemAlreadyExistsError
PutRecordRaises(idempotency_record, t) ==
    /\ Cardinality(DOMAIN idempotency_record) > 0
    /\ \/ idempotency_record[status_attr] = COMPLETED
       \/ /\ in_progress_expiry_attr \in DOMAIN idempotency_record
          /\ idempotency_record[in_progress_expiry_attr] > t

\* what the check of _put_record found, for the properties
Observed(item, t) ==
    CASE ~Exists(item) -> "absent"
      [] expiry_attr \in DOMAIN item /\ item[expiry_attr] < t -> "expired"
      [] item[status_attr] = COMPLETED -> "completed"
      [] in_progress_expiry_attr \notin DOMAIN item -> "inprogress_no_expiry"
      [] item[in_progress_expiry_attr] > t -> "inprogress_live"
      [] item[in_progress_expiry_attr] = t -> "inprogress_expiring"
      [] OTHER -> "inprogress_expired"

(***************************************************************************)
(* RedisCachePersistenceLayer._update_record, _get_record                  *)
(***************************************************************************)
UpdateRecordMapping(result) == [data |-> JsonDumps(result), status |-> COMPLETED]

\* DataRecord.status: EXPIRED once expiry_timestamp has passed; expiry = -1
\* stands for a record built without expiry_timestamp
DataRecordStatus(status, expiry, t) ==
    IF expiry # NoTTL /\ t > expiry THEN EXPIRED ELSE status

\* _get_record and _item_to_data_record: [exc, status, response_data];
\* item[self.status_attr] of an empty mapping raises KeyError, the data record
\* is built without expiry_timestamp
RedisGetRecord(item, t) ==
    IF status_attr \notin DOMAIN item
    THEN [exc |-> PyKeyError, status |-> "", response_data |-> "None",
          payload_hash |-> "None"]
    ELSE [exc |-> Returned,
          status |-> DataRecordStatus(item[status_attr], NoTTL, t),
          response_data |-> StrGet(item, data_attr),
          payload_hash |-> StrGet(item, validation_key_attr)]

(***************************************************************************)
(* The conditional-write backend: one atomic conditional put.              *)
(***************************************************************************)
\* ConditionExpression of the put
ConditionalPutAllowed(item, t) ==
    \/ ~Exists(item)
    \/ item[expiry_attr] < t
    \/ /\ in_progress_expiry_attr \in DOMAIN item
       /\ item[in_progress_expiry_attr] < t
       /\ item[status_attr] = INPROGRESS

ConditionalPutItem(expiry, t) ==
    IF expiry # 0
    THEN [status |-> INPROGRESS, expiration |-> t + ExpiresAfter,
          in_progress_expiration |-> expiry]
    ELSE [status |-> INPROGRESS, expiration |-> t + ExpiresAfter]

ConditionalUpdateMapping(result, t) ==
    [data |-> JsonDumps(result), status |-> COMPLETED,
     expiration |-> t + ExpiresAfter]

ConditionalGetRecord(item, t) ==
    IF ~Exists(item)
    THEN [exc |-> ItemNotFoundError, status |-> "", response_data |-> PyNone,
          payload_hash |-> PyNone]
    ELSE [exc |-> Returned,
          status |-> DataRecordStatus(item[status_attr], item[expiry_attr], t),
          response_data |-> ItemGet(item, data_attr),
          payload_hash |-> ItemGet(item, validation_key_attr)]

GetRecordOf(item, t) ==
    IF backend = Redis THEN RedisGetRecord(item, t) ELSE ConditionalGetRecord(item, t)

(***************************************************************************)
(* idempotency.py                                                          *)
(***************************************************************************)
\* the loop retrying on IdempotencyAlreadyInProgressError too
IdempotentRetries_AlsoInProgress(i, exc) ==
    exc \in {InconsistentStateError, AlreadyInProgressError}
        /\ i # max_handler_retries

\* the loop retrying on every exception
IdempotentRetries_AnyException(i, exc) ==
    i # max_handler_retries

\* idempotent: the loop around handle(); i is the loop index, exc the
\* exception handle() raised.  TRUE: run handle() again
IdempotentRetries(i, exc) ==
    exc = InconsistentStateError /\ i # max_handler_retries

\* handle without the clause that re-raises IdempotencyKeyError
HandleSaveInprogressRaises_WrapsKeyError(exc) ==
    CASE exc = ItemAlreadyExistsError -> "get_record"
      [] OTHER -> PersistenceLayerError

\* handle: what an exception of save_inprogress becomes; "get_record" stands
\* for the branch that retrieves the record
HandleSaveInprogressRaises(exc) ==
    CASE exc = IdempotencyKeyError -> IdempotencyKeyError
      [] exc = ItemAlreadyExistsError -> "get_record"
      [] OTHER -> PersistenceLayerError

\* every exception of get_record let through as it is
GetIdempotencyRecordRaises_Leaks(exc) == exc

\* _get_idempotency_record: what an exception of get_record becomes
GetIdempotencyRecordRaises(exc) ==
    CASE exc = Returned -> Returned
      [] exc = ItemNotFoundError -> InconsistentStateError
      [] exc = ValidationError -> ValidationError
      [] OTHER -> PersistenceLayerError

\* the exception of the function replaced although delete_record returned
HandlerRaised_Wrapped(exc) == PersistenceLayerError

\* _call_lambda_handler: after delete_record returned, "raise" raises the
\* exception of the wrapped function again
HandlerRaised(exc) == exc

\* the failure of delete_record hidden behind the exception of the function
DeleteRecordRaises_Reraises(exc) == HandlerException

\* _call_lambda_handler: what an exception of delete_record becomes
DeleteRecordRaises(exc) == PersistenceLayerError

\* the failure of save_success swallowed: the response is returned
SaveSuccessRaises_Swallowed(exc) == Returned

\* _call_lambda_handler: what an exception of save_success becomes
SaveSuccessRaises(exc) == PersistenceLayerError

\* raise IdempotencyPersistenceLayerError(...) from exc: the cause of the
\* exception that reaches the caller, "" when it has none
RaisedFrom(raised, exc) == IF raised = PersistenceLayerError THEN exc ELSE ""

\* _handle_for_status without the check of the INPROGRESS status
HandleForStatus_NoInProgress(status, response_data) ==
    CASE status = EXPIRED -> [exc |-> InconsistentStateError, value |-> 0]
      [] response_data \in {Digits[i] : i \in 1 .. Len(Digits)} ->
            [exc |-> Returned, value |-> JsonLoads(response_data)]
      [] OTHER -> [exc |-> "JSONDecodeError", value |-> 0]

\* _handle_for_status without the check of the EXPIRED status
HandleForStatus_NoExpired(status, response_data) ==
    CASE status = INPROGRESS -> [exc |-> AlreadyInProgressError, value |-> 0]
      [] response_data \in {Digits[i] : i \in 1 .. Len(Digits)} ->
            [exc |-> Returned, value |-> JsonLoads(response_data)]
      [] OTHER -> [exc |-> "JSONDecodeError", value |-> 0]

\* _handle_for_status: [exc, value]
HandleForStatus(status, response_data) ==
    CASE status = EXPIRED -> [exc |-> InconsistentStateError, value |-> 0]
      [] status = INPROGRESS -> [exc |-> AlreadyInProgressError, value |-> 0]
      [] response_data \in {Digits[i] : i \in 1 .. Len(Digits)} ->
            [exc |-> Returned, value |-> JsonLoads(response_data)]
      [] OTHER -> [exc |-> "JSONDecodeError", value |-> 0]

(***************************************************************************)
(* AppSyncResolver: the state of the resolver.                             *)
(***************************************************************************)
Fields == 1 .. NumFields
ContextKeys == 1 .. NumContextKeys

\* the resolvers registered with app.resolver, app.batch_resolver and
\* app.batch_async_resolver (type_name "*"): the first field has a resolver
\* and a batch resolver, the second an asynchronous batch resolver, the
\* others none
ResolverFields == {1}
BatchResolverFields == {1}
BatchAsyncResolverFields == {2}

\* the batches AppSync sends: one event or more, each with its field name
Batches == UNION {[1 .. n -> Fields] : n \in 1 .. MaxBatch}

ResolverError == "ResolverError"
ValueError == "ValueError"

\* no resolver made yet
InitAppSync == appsync = [pc |-> "new"]

(***************************************************************************)
(* AmazonCloudWatchEMFProvider: state.                                      *)
(***************************************************************************)
MetricNames == 1 .. NumMetricNames
\* the dimension "service"
ServiceDimension == 0
DimensionNames == 0 .. NumDimensions
MetadataKeys == {1}

SchemaValidationError == "SchemaValidationError"

\* metric_set: name -> number of values of the metric, 0 when the name is
\* not in the dict
EmptyMetricSet == [n \in MetricNames |-> 0]
Names(metric_set) == {n \in MetricNames : metric_set[n] > 0}

\* no provider made yet
InitMetrics == metrics = [pc |-> "new"]

(***************************************************************************)
(* ApiGatewayResolver: state.                                               *)
(***************************************************************************)
Newline == "\n"
Chars == {"a", "b", Newline}
\* <name> in a rule, compiled to (?P<name>.+)
Dynamic == "<x>"
Rules == {<<"a">>, <<Dynamic>>, <<"a", Dynamic>>}
Paths == UNION {[1 .. n -> Chars] : n \in 0 .. MaxPath}
RouteMethods == {"GET", "options"}
HttpMethods == {"get", "GET", "OPTIONS"}

\* no resolver made yet
InitApi == api = [pc |-> "new"]

InitElsewhere == InitAppSync /\ InitMetrics /\ InitApi

(***************************************************************************)
(* Initial state.                                                          *)
(***************************************************************************)
InitState(b, c) ==
    /\ InitElsewhere
    /\ backend = b
    /\ config = c
    /\ body = [p \in Procs |-> 1]
    /\ function = [p \in Procs |-> 1]
    /\ now = 0
    /\ store = [k \in Keys |-> NoItem]
    /\ ttl = [k \in Keys |-> NoTTL]
    /\ pc = [p \in Procs |-> "idle"]
    /\ kind = [p \in Procs |-> "idempotent"]
    /\ event = [p \in Procs |-> 1]
    /\ attempt = [p \in Procs |-> 1]
    /\ invoked = [p \in Procs |-> 0]
    /\ response = [p \in Procs |-> 0]
    /\ handler_exception = [p \in Procs |-> ""]
    /\ met = [p \in Procs |-> ""]
    /\ seen = [p \in Procs |-> ""]
    /\ lastExc = [p \in Procs |-> ""]
    /\ in_progress_expiry = [p \in Procs |-> 0]
    /\ outcome = [p \in Procs |-> NoOutcome]
    /\ removed = [p \in Procs |-> FALSE]
    /\ released = {}
    /\ layerExc = [p \in Procs |-> ""]

InitWith(b) == InitState(b, DefaultConfig)

Init == InitWith(Redis)

InitFaults == InitState(Redis, RaisingConfig)

InitConditionalRaising == InitState(ConditionalWrite, RaisingConfig)

InitStrict == InitState(Redis, StrictConfig)

InitNested == InitState(Redis, NestedConfig)

InitClients == \E c \in ClientConfigs : InitState(Redis, c)

InitConditional == InitWith(ConditionalWrite)

(***************************************************************************)
(* Helpers of the actions.                                                 *)
(***************************************************************************)
\* the clients whose running call is on key k learn that its item is gone
MarkRemoved(ks) ==
    [p \in Procs |-> removed[p] \/ (pc[p] # "idle" /\ KeyOf(p) \in ks)]

\* the call of client p ends: it returned value, or raised exc; the
\* exception raised "from" another carries that one as its cause
Finish(p, exc, value, cause) ==
    /\ pc' = [pc EXCEPT ![p] = "done"]
    /\ outcome' = [outcome EXCEPT ![p] =
                      [type |-> exc, value |-> value, cause |-> cause]]

\* handle() of client p ended with exc (Returned: it returned value): the
\* loop of idempotent either runs it again or ends the call
EndAttempt(p, exc, value, cause) ==
    /\ lastExc' = [lastExc EXCEPT ![p] = exc]
    /\ IF exc # Returned /\ IdempotentRetries(attempt[p] - 1, exc)
       THEN /\ pc' = [pc EXCEPT ![p] = "save_inprogress"]
            /\ attempt' = [attempt EXCEPT ![p] = @ + 1]
            /\ UNCHANGED outcome
       ELSE /\ Finish(p, exc, value, cause)
            /\ UNCHANGED attempt

\* a direct call of the persistence layer ends
EndDirect(p, exc) ==
    /\ Finish(p, exc, 0, "")
    /\ UNCHANGED <<attempt, lastExc>>

\* save_inprogress of client p raised exc
SaveInprogressRaised(p, exc) ==
    /\ layerExc' = [layerExc EXCEPT ![p] = exc]
    /\ IF kind[p] = "idempotent"
       THEN IF HandleSaveInprogressRaises(exc) = "get_record"
            THEN /\ pc' = [pc EXCEPT ![p] = "get_record"]
                 /\ UNCHANGED <<attempt, lastExc, outcome>>
            ELSE EndAttempt(p, HandleSaveInprogressRaises(exc), 0,
                            RaisedFrom(HandleSaveInprogressRaises(exc), exc))
       ELSE EndDirect(p, exc)

\* save_inprogress of client p returned
SaveInprogressReturned(p) ==
    /\ layerExc' = [layerExc EXCEPT ![p] = ""]
    /\ IF kind[p] = "idempotent"
       THEN /\ pc' = [pc EXCEPT ![p] = "call_handler"]
            /\ UNCHANGED <<attempt, lastExc, outcome>>
       ELSE EndDirect(p, Returned)

\* in_progress_expiry_timestamp of the record save_inprogress builds: handle()
\* passes no remaining time, the direct call passes RemainingTime
InProgressExpiry(p) ==
    IF kind[p] = "idempotent" THEN 0 ELSE now + RemainingTime

\* what the check of the stored record of key k finds: Observed, and
\* "released" for a key that has no record since delete_record removed it
Found(k, item, t) ==
    IF Observed(item, t) = "absent" /\ k \in released
    THEN "released" ELSE Observed(item, t)

(***************************************************************************)
(* Actions.                                                                *)
(***************************************************************************)
\* client p begins a call: the decorated handler on payload e, or one direct
\* operation of the persistence layer
BeginWith(p, kd, e, b) ==
    /\ pc[p] = "idle"
    /\ Constructed
    /\ body' = [body EXCEPT ![p] = b]
    /\ pc' = [pc EXCEPT ![p] =
                 IF kd \in {"idempotent", "save_inprogress"}
                 THEN "save_inprogress" ELSE kd]
    /\ kind' = [kind EXCEPT ![p] = kd]
    /\ event' = [event EXCEPT ![p] = e]
    /\ UNCHANGED <<backend, config, now, store, ttl, attempt, invoked, response, met,
                   seen, lastExc, in_progress_expiry, outcome, removed>>
    /\ UNCHANGED released
    /\ UNCHANGED layerExc

Begin(p, kd, e) ==
    /\ \E b \in BodiesOf(config) : BeginWith(p, kd, e, b)
    /\ UNCHANGED function
    /\ UNCHANGED handler_exception
    /\ UNCHANGED elsewhere

Start(p) ==
    \E kd \in Kinds, e \in EventsOf(config) : Begin(p, kd, e)

\* the same, when every other client is idle (its call has ended and its
\* caller has the answer): calls made one after the other
StartAlone(p) ==
    /\ \A q \in Procs \ {p} : pc[q] = "idle"
    /\ \E kd \in Kinds, e \in EventsOf(config) : Begin(p, kd, e)

\* client p calls the decorated handler that wraps function f, when no other
\* call is running; the answers of the calls that ended are still at hand
StartFunction(p) ==
    /\ \A q \in Procs \ {p} : pc[q] \in {"idle", "done"}
    /\ \E f \in Functions, e \in EventsOf(config) :
          /\ BeginWith(p, "idempotent", e, 1)
          /\ function' = [function EXCEPT ![p] = f]
    /\ UNCHANGED handler_exception
    /\ UNCHANGED elsewhere

\* the caller of p has its answer; p is ready for another call
Return(p) ==
    /\ pc[p] = "done"
    /\ pc' = [pc EXCEPT ![p] = "idle"]
    /\ kind' = [kind EXCEPT ![p] = "idempotent"]
    /\ event' = [event EXCEPT ![p] = 1]
    /\ body' = [body EXCEPT ![p] = 1]
    /\ function' = [function EXCEPT ![p] = 1]
    /\ attempt' = [attempt EXCEPT ![p] = 1]
    /\ invoked' = [invoked EXCEPT ![p] = 0]
    /\ response' = [response EXCEPT ![p] = 0]
    /\ handler_exception' = [handler_exception EXCEPT ![p] = ""]
    /\ met' = [met EXCEPT ![p] = ""]
    /\ seen' = [seen EXCEPT ![p] = ""]
    /\ lastExc' = [lastExc EXCEPT ![p] = ""]
    /\ in_progress_expiry' = [in_progress_expiry EXCEPT ![p] = 0]
    /\ outcome' = [outcome EXCEPT ![p] = NoOutcome]
    /\ removed' = [removed EXCEPT ![p] = FALSE]
    /\ UNCHANGED <<backend, config, now, store, ttl>>
    /\ UNCHANGED released
    /\ layerExc' = [layerExc EXCEPT ![p] = ""]
    /\ UNCHANGED elsewhere

\* time passes; Redis removes the keys whose deadline is reached
Tick ==
    /\ now < MaxTime
    /\ now' = now + 1
    /\ LET gone == {k \in Keys : ttl[k] # NoTTL /\ ttl[k] <= now + 1} IN
         /\ store' = [k \in Keys |-> IF k \in gone THEN NoItem ELSE store[k]]
         /\ ttl' = [k \in Keys |-> IF k \in gone THEN NoTTL ELSE ttl[k]]
         /\ removed' = MarkRemoved(gone)
    /\ UNCHANGED <<backend, config, body, pc, kind, event, attempt, invoked, response, met, seen,
                   lastExc, in_progress_expiry, outcome>>
    /\ UNCHANGED released
    /\ UNCHANGED layerExc
    /\ UNCHANGED function
    /\ UNCHANGED handler_exception
    /\ UNCHANGED elsewhere

\* save_inprogress and _put_record up to the check of the stored record
PutCheck(p) ==
    /\ backend = Redis
    /\ pc[p] = "save_inprogress"
    /\ ~HashedIdempotencyKeyRaises(event[p])
    /\ LET idempotency_record == Hgetall(KeyOf(p)) IN
         /\ met' = [met EXCEPT ![p] = Found(KeyOf(p), idempotency_record, now)]
         /\ in_progress_expiry' = [in_progress_expiry EXCEPT ![p] = InProgressExpiry(p)]
         /\ IF PutRecordRaises(idempotency_record, now)
            THEN SaveInprogressRaised(p, ItemAlreadyExistsError)
            ELSE /\ pc' = [pc EXCEPT ![p] = "hset"]
                 /\ UNCHANGED <<attempt, lastExc, outcome, layerExc>>
    /\ seen' = [seen EXCEPT ![p] = ""]
    /\ UNCHANGED <<backend, config, body, now, store, ttl, kind, event, invoked, response,
                   removed>>
    /\ UNCHANGED released
    /\ UNCHANGED function
    /\ UNCHANGED handler_exception
    /\ UNCHANGED elsewhere

\* _put_record: self._connection.hset(**item)
PutHset(p) ==
    /\ backend = Redis
    /\ pc[p] = "hset"
    /\ store' = [store EXCEPT ![KeyOf(p)] =
                    Hset(@, WithValidation(PutRecordMapping(in_progress_expiry[p]),
                                           HashedPayload(body[p])))]
    /\ pc' = [pc EXCEPT ![p] = "expire"]
    /\ UNCHANGED <<backend, config, body, now, ttl, kind, event, attempt, invoked, response, met,
                   seen, lastExc, in_progress_expiry, outcome, removed>>
    /\ released' = released \ {KeyOf(p)}
    /\ UNCHANGED layerExc
    /\ UNCHANGED function
    /\ UNCHANGED handler_exception
    /\ UNCHANGED elsewhere

\* _put_record: self._connection.expire(...), then save_inprogress returns
PutExpire(p) ==
    /\ backend = Redis
    /\ pc[p] = "expire"
    /\ ttl' = [ttl EXCEPT ![KeyOf(p)] = Expire(KeyOf(p), ExpiresAfter)]
    /\ SaveInprogressReturned(p)
    /\ in_progress_expiry' = [in_progress_expiry EXCEPT ![p] = 0]
    /\ UNCHANGED <<backend, config, body, now, store, kind, event, invoked, response, met, seen,
                   removed>>
    /\ UNCHANGED released
    /\ UNCHANGED function
    /\ UNCHANGED handler_exception
    /\ UNCHANGED elsewhere

\* save_inprogress on the conditional-write backend: one conditional put
ConditionalPut(p) ==
    /\ backend = ConditionalWrite
    /\ pc[p] = "save_inprogress"
    /\ ~HashedIdempotencyKeyRaises(event[p])
    /\ met' = [met EXCEPT ![p] = Found(KeyOf(p), store[KeyOf(p)], now)]
    /\ seen' = [seen EXCEPT ![p] = ""]
    /\ UNCHANGED in_progress_expiry
    /\ IF ConditionalPutAllowed(store[KeyOf(p)], now)
       THEN /\ store' = [store EXCEPT ![KeyOf(p)] =
                            WithValidation(
                                ConditionalPutItem(InProgressExpiry(p), now),
                                HashedPayload(body[p]))]
            /\ released' = released \ {KeyOf(p)}
            /\ SaveInprogressReturned(p)
       ELSE /\ SaveInprogressRaised(p, ItemAlreadyExistsError)
            /\ UNCHANGED <<store, released>>
    /\ UNCHANGED <<backend, config, body, now, ttl, kind, event, invoked, response, removed>>
    /\ UNCHANGED function
    /\ UNCHANGED handler_exception
    /\ UNCHANGED elsewhere

\* the backend removes an item whose expiration has passed
TtlDelete(k) ==
    /\ backend = ConditionalWrite
    /\ Exists(store[k])
    /\ store[k][expiry_attr] < now
    /\ store' = [store EXCEPT ![k] = NoItem]
    /\ removed' = MarkRemoved({k})
    /\ UNCHANGED <<backend, config, body, now, ttl, pc, kind, event, attempt, invoked, response,
                   met, seen, lastExc, in_progress_expiry, outcome>>
    /\ UNCHANGED released
    /\ UNCHANGED layerExc
    /\ UNCHANGED function
    /\ UNCHANGED handler_exception
    /\ UNCHANGED elsewhere

\* get_record; in the decorated handler _get_idempotency_record and
\* _handle_for_status follow it
GetRecord(p) ==
    /\ pc[p] = "get_record"
    /\ ~HashedIdempotencyKeyRaises(event[p])
    /\ LET got == GetRecordOf(store[KeyOf(p)], now)
           invalid == /\ got.exc = Returned
                      /\ ValidatePayloadRaises(HashedPayload(body[p]),
                                               got.payload_hash)
           raised == IF invalid THEN ValidationError ELSE got.exc
           exc == GetIdempotencyRecordRaises(raised)
           res == HandleForStatus(got.status, got.response_data)
       IN
         /\ layerExc' = [layerExc EXCEPT ![p] =
                            IF raised = Returned THEN "" ELSE raised]
         /\ seen' = [seen EXCEPT ![p] =
                        CASE ~Exists(store[KeyOf(p)]) -> "absent"
                          [] invalid -> "mismatch"
                          [] OTHER -> got.status]
         /\ IF kind[p] = "idempotent"
            THEN IF exc # Returned
                 THEN EndAttempt(p, exc, 0, RaisedFrom(exc, raised))
                 ELSE EndAttempt(p, res.exc, res.value, "")
            ELSE EndDirect(p, raised)
    /\ UNCHANGED <<backend, config, body, now, store, ttl, kind, event, invoked, response, met,
                   in_progress_expiry, removed>>
    /\ UNCHANGED released
    /\ UNCHANGED function
    /\ UNCHANGED handler_exception
    /\ UNCHANGED elsewhere

\* _call_lambda_handler: the wrapped function runs and returns r or raises
CallHandler(p) ==
    /\ pc[p] = "call_handler"
    /\ invoked' = [invoked EXCEPT ![p] = @ + 1]
    /\ \/ \E r \in Results :
            /\ response' = [response EXCEPT ![p] = r]
            /\ handler_exception' = [handler_exception EXCEPT ![p] = ""]
            /\ pc' = [pc EXCEPT ![p] = "save_success"]
       \/ \E exc \in config.function_raises :
            /\ handler_exception' = [handler_exception EXCEPT ![p] = exc]
            /\ pc' = [pc EXCEPT ![p] = "delete_record"]
            /\ UNCHANGED response
    /\ UNCHANGED <<backend, config, body, now, store, ttl, kind, event, attempt, met, seen,
                   lastExc, in_progress_expiry, outcome, removed>>
    /\ UNCHANGED released
    /\ UNCHANGED layerExc
    /\ UNCHANGED function
    /\ UNCHANGED elsewhere

\* save_success (_update_record), then the handler's response is returned
SaveSuccess(p) ==
    /\ pc[p] = "save_success"
    /\ store' = [store EXCEPT ![KeyOf(p)] =
                    IF backend = Redis
                    THEN Hset(@, UpdateRecordMapping(response[p]))
                    ELSE Hset(@, ConditionalUpdateMapping(response[p], now))]
    /\ EndAttempt(p, Returned, response[p], "")
    /\ UNCHANGED <<backend, config, body, now, ttl, kind, event, invoked, response, met, seen,
                   in_progress_expiry, removed>>
    /\ released' = released \ {KeyOf(p)}
    /\ UNCHANGED layerExc
    /\ UNCHANGED function
    /\ UNCHANGED handler_exception
    /\ UNCHANGED elsewhere

\* delete_record (_delete_record); in the decorated handler the exception of
\* the wrapped function is raised after it
DeleteRecord(p) ==
    /\ pc[p] = "delete_record"
    /\ ~HashedIdempotencyKeyRaises(event[p])
    /\ store' = [store EXCEPT ![KeyOf(p)] = Delete(@)]
    /\ ttl' = [ttl EXCEPT ![KeyOf(p)] = NoTTL]
    /\ removed' = [MarkRemoved(IF Exists(store[KeyOf(p)]) THEN {KeyOf(p)} ELSE {})
                       EXCEPT ![p] = removed[p]]
    /\ IF kind[p] = "idempotent"
       THEN EndAttempt(p, HandlerRaised(handler_exception[p]), 0, "")
       ELSE EndDirect(p, Returned)
    /\ UNCHANGED <<backend, config, body, now, kind, event, invoked, response, met, seen,
                   in_progress_expiry>>
    /\ released' = IF Exists(store[KeyOf(p)])
                   THEN released \cup {KeyOf(p)} ELSE released
    /\ UNCHANGED layerExc
    /\ UNCHANGED function
    /\ UNCHANGED handler_exception
    /\ UNCHANGED elsewhere

\* the key selector finds nothing in the event of p and
\* raise_on_no_idempotency_key is set: the operation raises IdempotencyKeyError
\* before it sends a command
KeyDerivationFails(p) ==
    /\ pc[p] \in {"save_inprogress", "get_record", "delete_record"}
    /\ HashedIdempotencyKeyRaises(event[p])
    /\ IF kind[p] = "idempotent"
       THEN SaveInprogressRaised(p, IdempotencyKeyError)
       ELSE /\ EndDirect(p, IdempotencyKeyError)
            /\ layerExc' = [layerExc EXCEPT ![p] = IdempotencyKeyError]
    /\ UNCHANGED <<backend, config, body, now, store, ttl, kind, event, invoked,
                   response, met, seen, in_progress_expiry, removed, released>>
    /\ UNCHANGED function
    /\ UNCHANGED handler_exception
    /\ UNCHANGED elsewhere

\* a command of the backend fails (connection lost, ...): the operation of
\* the persistence layer that sent it raises RedisError
BackendError(p) ==
    /\ pc[p] \in {"save_inprogress", "hset", "expire", "get_record",
                  "save_success", "delete_record"}
    /\ ~HashedIdempotencyKeyRaises(event[p])
    /\ layerExc' = [layerExc EXCEPT ![p] = RedisError]
    /\ IF kind[p] # "idempotent"
       THEN EndDirect(p, RedisError)
       ELSE LET raised ==
                  CASE pc[p] \in {"save_inprogress", "hset", "expire"} ->
                          HandleSaveInprogressRaises(RedisError)
                    [] pc[p] = "get_record" ->
                          GetIdempotencyRecordRaises(RedisError)
                    [] pc[p] = "save_success" -> SaveSuccessRaises(RedisError)
                    [] OTHER -> DeleteRecordRaises(RedisError)
            IN EndAttempt(p, raised, IF raised = Returned THEN response[p] ELSE 0,
                          RaisedFrom(raised, RedisError))
    /\ UNCHANGED <<backend, config, body, now, store, ttl, kind, event, invoked, response, met,
                   seen, in_progress_expiry, removed>>
    /\ UNCHANGED released
    /\ UNCHANGED function
    /\ UNCHANGED handler_exception
    /\ UNCHANGED elsewhere

(***************************************************************************)
(* Specifications.                                                         *)
(***************************************************************************)
\* concurrent calls on the Redis backend, whose commands may fail
Next ==
    \/ Tick
    \/ \E p \in Procs :
          \/ Start(p)
          \/ Return(p)
          \/ PutCheck(p)
          \/ PutHset(p)
          \/ PutExpire(p)
          \/ GetRecord(p)
          \/ CallHandler(p)
          \/ SaveSuccess(p)
          \/ DeleteRecord(p)
          \/ BackendError(p)

Spec == Init /\ [][Next]_vars

\* calls made one after the other on a Redis backend that does not fail
NextSeq ==
    \/ Tick
    \/ \E p \in Procs :
          \/ StartAlone(p)
          \/ Return(p)
          \/ PutCheck(p)
          \/ PutHset(p)
          \/ PutExpire(p)
          \/ GetRecord(p)
          \/ CallHandler(p)
          \/ SaveSuccess(p)
          \/ DeleteRecord(p)

SpecSeq == Init /\ [][NextSeq]_vars

\* ... on a layer built on a client of either decode_responses setting
SpecClients == InitClients /\ [][NextSeq]_vars

\* calls of decorated handlers that wrap different functions, made one after
\* the other with the same persistence layer
NextFunctions ==
    \/ Tick
    \/ \E p \in Procs :
          \/ StartFunction(p)
          \/ Return(p)
          \/ PutCheck(p)
          \/ PutHset(p)
          \/ PutExpire(p)
          \/ GetRecord(p)
          \/ CallHandler(p)
          \/ SaveSuccess(p)
          \/ DeleteRecord(p)

SpecFunctions == Init /\ [][NextFunctions]_vars

\* calls made one after the other on a Redis layer whose commands may fail
NextFaults ==
    \/ Tick
    \/ \E p \in Procs :
          \/ StartAlone(p)
          \/ Return(p)
          \/ KeyDerivationFails(p)
          \/ PutCheck(p)
          \/ PutHset(p)
          \/ PutExpire(p)
          \/ GetRecord(p)
          \/ CallHandler(p)
          \/ SaveSuccess(p)
          \/ DeleteRecord(p)
          \/ BackendError(p)

\* ... with raise_on_no_idempotency_key set
SpecFaults == InitFaults /\ [][NextFaults]_vars

\* ... with payload validation and raise_on_no_idempotency_key set
SpecStrict == InitStrict /\ [][NextFaults]_vars

\* ... with a wrapped function that may raise
\* IdempotencyInconsistentStateError itself
SpecNested == InitNested /\ [][NextFaults]_vars

\* concurrent calls on the conditional-write backend
NextConditional ==
    \/ Tick
    \/ \E k \in Keys : TtlDelete(k)
    \/ \E p \in Procs :
          \/ Start(p)
          \/ Return(p)
          \/ ConditionalPut(p)
          \/ GetRecord(p)
          \/ CallHandler(p)
          \/ SaveSuccess(p)
          \/ DeleteRecord(p)

SpecConditional == InitConditional /\ [][NextConditional]_vars

\* ... with raise_on_no_idempotency_key set
NextConditionalRaising ==
    \/ NextConditional
    \/ \E p \in Procs : KeyDerivationFails(p)

SpecConditionalRaising ==
    InitConditionalRaising /\ [][NextConditionalRaising]_vars

(***************************************************************************)
(* AppSyncResolver: operations.                                            *)
(***************************************************************************)
\* ResolverRegistry.find_resolver: the resolver registered for the field
\* (named by its field), 0 for None
FindResolver(registry, field_name) ==
    IF field_name \in registry THEN field_name ELSE 0

FieldNames(batch_event) == {batch_event[i] : i \in DOMAIN batch_event}

\* _call_batch_resolver, the check of the field names: the statement under
\* the if builds a ValueError and drops it; nothing is raised
MixedBatchRaises(batch_event) ==
    Cardinality(FieldNames(batch_event)) > 1 /\ FALSE

\* the events the batch resolver is called with; failing is the index of
\* the first call that raises, 0 when none does.  _call_sync_batch_resolver
\* stops at the call that raises; _call_async_batch_resolver starts every
\* task before any of them runs
BatchCalls(batch_event, async, failing) ==
    IF async \/ failing = 0
    THEN batch_event
    ELSE SubSeq(batch_event, 1, failing)

\* resolve() ends: del self._router_context.context is reached only when
\* the resolver call returned
ResolveEnds(batch, ev, calls, result) ==
    /\ appsync.pc = "ready"
    /\ appsync' = [appsync EXCEPT
                      !.batch = batch, !.event = ev, !.calls = calls,
                      !.visible = IF calls # <<>> THEN appsync.context ELSE {},
                      !.result = result,
                      !.context = IF result = Returned THEN {} ELSE @]
    /\ UNCHANGED exceptAppSync

\* app = AppSyncResolver(), router = Router(): empty contexts, the router
\* not included; no resolve() made
AppSyncInit ==
    /\ appsync.pc = "new"
    /\ appsync' = [pc |-> "ready", context |-> {}, router_context |-> {},
                   included |-> FALSE, batch |-> FALSE, event |-> <<>>,
                   calls |-> <<>>, visible |-> {}, result |-> ""]
    /\ UNCHANGED exceptAppSync

\* a new invocation: what is kept of the latest resolve() is dropped
NewInvocation(a) ==
    [a EXCEPT !.batch = FALSE, !.event = <<>>, !.calls = <<>>,
              !.visible = {}, !.result = ""]

\* app.append_context(k=...)
AppendContext(k) ==
    /\ appsync.pc = "ready"
    /\ k \notin appsync.context
    /\ appsync' = [NewInvocation(appsync) EXCEPT !.context = @ \cup {k}]
    /\ UNCHANGED exceptAppSync

\* router.append_context(k=...): once the router is included its context
\* is the dict of the app
RouterAppendContext(k) ==
    /\ appsync.pc = "ready"
    /\ IF appsync.included
       THEN /\ k \notin appsync.context
            /\ appsync' = [NewInvocation(appsync) EXCEPT !.context = @ \cup {k}]
       ELSE /\ k \notin appsync.router_context
            /\ appsync' = [appsync EXCEPT !.router_context = @ \cup {k}]
    /\ UNCHANGED exceptAppSync

\* app.include_router(router): the context of the router is merged into the
\* one of the app, and the router is handed the dict of the app
IncludeRouter ==
    /\ appsync.pc = "ready"
    /\ ~appsync.included
    /\ appsync' = [appsync EXCEPT
                      !.context = @ \cup appsync.router_context,
                      !.router_context = {},
                      !.included = TRUE]
    /\ UNCHANGED exceptAppSync

\* resolve(event, context) of one event: _call_single_resolver
ResolveSingle(field_name, raises) ==
    LET resolver == FindResolver(ResolverFields, field_name) IN
      /\ resolver = 0 => ~raises
      /\ ResolveEnds(FALSE, <<field_name>>,
                     IF resolver = 0 THEN <<>> ELSE <<field_name>>,
                     CASE resolver = 0 -> ValueError
                       [] raises -> ResolverError
                       [] OTHER -> Returned)

\* resolve(event, context) of a list of events: _call_batch_resolver
ResolveBatch(batch_event, failing) ==
    LET resolver == FindResolver(BatchResolverFields, batch_event[1])
        async_resolver == FindResolver(BatchAsyncResolverFields, batch_event[1])
        found == resolver # 0 \/ async_resolver # 0
        rejected == MixedBatchRaises(batch_event)
    IN
      /\ failing \in 0 .. Len(batch_event)
      /\ (rejected \/ ~found) => failing = 0
      /\ ResolveEnds(TRUE, batch_event,
                     IF rejected \/ ~found
                     THEN <<>>
                     ELSE BatchCalls(batch_event, resolver = 0, failing),
                     CASE rejected \/ ~found -> ValueError
                       [] failing # 0 -> ResolverError
                       [] OTHER -> Returned)

(***************************************************************************)
(* AmazonCloudWatchEMFProvider: operations.                                 *)
(***************************************************************************)
\* serialize_metric_set: add_dimension(name="service") refuses a dimension
\* when MAX_DIMENSIONS are set
ServiceDimensionRaises(m) ==
    /\ m.service
    /\ ServiceDimension \notin m.dimension_set
    /\ Cardinality(m.dimension_set) = MAX_DIMENSIONS

\* serialize_metric_set raises SchemaValidationError
SerializeRaises(m) ==
    \/ ServiceDimensionRaises(m)
    \/ Names(m.metric_set) = {}
    \/ ~m.namespace

\* serialize_metric_set: the dimension set it leaves
SerializeDimensions(m) ==
    IF m.service /\ ServiceDimension \notin m.dimension_set
                 /\ ~ServiceDimensionRaises(m)
    THEN m.dimension_set \cup {ServiceDimension}
    ELSE m.dimension_set

AddMetricTo_ClearsAll(m, name) ==
    LET m1 == [m EXCEPT !.metric_set[name] = @ + 1]
        full == \/ Cardinality(Names(m1.metric_set)) = MAX_METRICS
                \/ m1.metric_set[name] = MAX_METRICS
    IN  CASE ~full -> [m1 EXCEPT !.printed = 0, !.raised = ""]
          [] full /\ SerializeRaises(m1) ->
               [m1 EXCEPT !.dimension_set = SerializeDimensions(m1),
                          !.printed = 0, !.raised = SchemaValidationError]
          [] OTHER ->
               [m1 EXCEPT !.dimension_set = {}, !.metadata_set = {},
                          !.metric_set = EmptyMetricSet,
                          !.printed = 1, !.raised = ""]

\* add_metric(name, unit, value)
AddMetricTo(m, name) ==
    LET m1 == [m EXCEPT !.metric_set[name] = @ + 1]
        full == \/ Cardinality(Names(m1.metric_set)) = MAX_METRICS
                \/ m1.metric_set[name] = MAX_METRICS
    IN  CASE ~full -> [m1 EXCEPT !.printed = 0, !.raised = ""]
          [] full /\ SerializeRaises(m1) ->
               [m1 EXCEPT !.dimension_set = SerializeDimensions(m1),
                          !.printed = 0, !.raised = SchemaValidationError]
          [] OTHER ->
               [m1 EXCEPT !.dimension_set = SerializeDimensions(m1),
                          !.metric_set = EmptyMetricSet,
                          !.printed = 1, !.raised = ""]

\* flush_metrics(raise_on_empty_metrics)
FlushMetricsOn(m, raise_on_empty_metrics) ==
    CASE ~raise_on_empty_metrics /\ Names(m.metric_set) = {} ->
           [m EXCEPT !.printed = 0, !.raised = ""]
      [] SerializeRaises(m) ->
           [m EXCEPT !.dimension_set = SerializeDimensions(m),
                     !.printed = 0, !.raised = SchemaValidationError]
      [] OTHER ->
           [m EXCEPT !.metric_set = EmptyMetricSet, !.dimension_set = {},
                     !.metadata_set = {}, !.printed = 1, !.raised = ""]

Decorate_HandlerFirst(handler_exc, finally_exc) ==
    CASE handler_exc # "" -> handler_exc
      [] finally_exc # "" -> finally_exc
      [] OTHER -> Returned

\* decorate: what reaches the caller; an exception raised in the finally
\* block takes the place of the one that was propagating
Decorate(handler_exc, finally_exc) ==
    CASE finally_exc # "" -> finally_exc
      [] handler_exc # "" -> handler_exc
      [] OTHER -> Returned

\* AmazonCloudWatchEMFProvider(namespace=..., service=...).  printed: EMF
\* objects the latest operation printed; raised: exception the latest
\* operation raised; flushes: calls of flush_metrics by decorate in the
\* latest invocation; result: how the latest invocation of the decorated
\* handler ended
MetricsInit(namespace, service) ==
    /\ metrics.pc = "new"
    /\ metrics' = [pc |-> "idle", namespace |-> namespace, service |-> service,
                   metric_set |-> EmptyMetricSet, dimension_set |-> {},
                   metadata_set |-> {}, raise_on_empty_metrics |-> FALSE,
                   printed |-> 0, raised |-> "", flushes |-> 0,
                   handler_exception |-> "", result |-> ""]
    /\ UNCHANGED exceptMetrics

\* add_metric; the values of a metric are counted up to MAX_METRICS
AddMetric(name) ==
    /\ metrics.pc \in {"idle", "handler"}
    /\ metrics.metric_set[name] < MAX_METRICS
    /\ metrics' = AddMetricTo(metrics, name)
    /\ UNCHANGED exceptMetrics

\* add_dimension(name, value); raises, and changes nothing, when
\* MAX_DIMENSIONS are set
AddDimension(name) ==
    /\ metrics.pc \in {"idle", "handler"}
    /\ name \notin metrics.dimension_set
    /\ metrics' =
         IF Cardinality(metrics.dimension_set) = MAX_DIMENSIONS
         THEN [metrics EXCEPT !.printed = 0, !.raised = SchemaValidationError]
         ELSE [metrics EXCEPT !.dimension_set = @ \cup {name},
                              !.printed = 0, !.raised = ""]
    /\ UNCHANGED exceptMetrics

\* add_metadata(key, value)
AddMetadata(key) ==
    /\ metrics.pc \in {"idle", "handler"}
    /\ key \notin metrics.metadata_set
    /\ metrics' = [metrics EXCEPT !.metadata_set = @ \cup {key},
                                  !.printed = 0, !.raised = ""]
    /\ UNCHANGED exceptMetrics

\* flush_metrics() called by a handler that is not decorated
FlushMetrics(raise_on_empty_metrics) ==
    /\ metrics.pc = "idle"
    /\ metrics' = FlushMetricsOn(metrics, raise_on_empty_metrics)
    /\ UNCHANGED exceptMetrics

\* the handler decorated with log_metrics(raise_on_empty_metrics=...) is
\* invoked: decorate calls lambda_handler
Invoke(raise_on_empty_metrics) ==
    /\ metrics.pc = "idle"
    /\ metrics' = [metrics EXCEPT
                      !.pc = "handler",
                      !.raise_on_empty_metrics = raise_on_empty_metrics,
                      !.printed = 0, !.raised = "", !.flushes = 0,
                      !.handler_exception = "", !.result = ""]
    /\ UNCHANGED exceptMetrics

\* lambda_handler returns or raises; the finally block of decorate runs
HandlerEnds(raises) ==
    LET handler_exc == IF raises THEN HandlerException ELSE ""
        m == FlushMetricsOn(metrics, metrics.raise_on_empty_metrics)
    IN
      /\ metrics.pc = "handler"
      /\ metrics' = [m EXCEPT !.pc = "idle",
                              !.flushes = @ + 1,
                              !.handler_exception = handler_exc,
                              !.result = Decorate(handler_exc, m.raised)]
      /\ UNCHANGED exceptMetrics

NextMetrics ==
    \/ \E namespace \in BOOLEAN, service \in BOOLEAN :
          MetricsInit(namespace, service)
    \/ \E name \in MetricNames : AddMetric(name)
    \/ \E name \in DimensionNames : AddDimension(name)
    \/ \E key \in MetadataKeys : AddMetadata(key)
    \/ \E raise_on_empty_metrics \in BOOLEAN :
          FlushMetrics(raise_on_empty_metrics)
    \/ \E raise_on_empty_metrics \in BOOLEAN : Invoke(raise_on_empty_metrics)
    \/ \E raises \in BOOLEAN : HandlerEnds(raises)

SpecMetrics == Init /\ [][NextMetrics]_vars

NextAppSync ==
    \/ AppSyncInit
    \/ \E k \in ContextKeys : AppendContext(k)
    \/ \E k \in ContextKeys : RouterAppendContext(k)
    \/ IncludeRouter
    \/ \E field_name \in Fields, raises \in BOOLEAN :
          ResolveSingle(field_name, raises)
    \/ \E batch_event \in Batches, failing \in 0 .. MaxBatch :
          ResolveBatch(batch_event, failing)

SpecAppSync == Init /\ [][NextAppSync]_vars

(***************************************************************************)
(* ApiGatewayResolver: operations.                                          *)
(***************************************************************************)
\* str.upper() of an HTTP method
Upper(method) ==
    CASE method = "get" -> "GET"
      [] method = "options" -> "OPTIONS"
      [] OTHER -> method

\* the positions of the path at which a match of the rule that starts at
\* position i can end.  A character of the rule matches itself;
\* (?P<name>.+) matches one character or more, none of them a newline
RECURSIVE Ends(_, _, _)
Ends(rule, path, i) ==
    IF rule = <<>>
    THEN {i}
    ELSE IF Head(rule) = Dynamic
         THEN UNION {Ends(Tail(rule), path, j) :
                       j \in {k \in i + 1 .. Len(path) + 1 :
                                \A t \in i .. k - 1 : path[t] # Newline}}
         ELSE IF i <= Len(path) /\ path[i] = Head(rule)
              THEN Ends(Tail(rule), path, i + 1)
              ELSE {}

\* route.rule.match(path), the rule compiled by _compile_regex as ^rule$:
\* $ matches at the end of the path and before a newline that ends it
RuleMatch(rule, path) ==
    \E e \in Ends(rule, path, 1) :
       \/ e = Len(path) + 1
       \/ e = Len(path) /\ path[e] = Newline

\* the rule matches the whole path
WholeMatch(rule, path) == Len(path) + 1 \in Ends(rule, path, 1)

\* _resolve: the loop over self._routes from the i-th route on; the index
\* of the route it calls, 0 when it calls none
RECURSIVE ResolveFrom(_, _, _, _)
ResolveFrom(routes, i, method, path) ==
    IF i > Len(routes)
    THEN 0
    ELSE IF method # routes[i].method
         THEN ResolveFrom(routes, i + 1, method, path)
         ELSE IF RuleMatch(routes[i].rule, path)
              THEN i
              ELSE ResolveFrom(routes, i + 1, method, path)

\* _not_found: the status code of the response
NotFound(cors, method) ==
    IF cors /\ method = "OPTIONS" THEN 204 ELSE 404

\* ApiGatewayResolver(cors=...): no route, no resolve() made
ApiInit(cors) ==
    /\ api.pc = "new"
    /\ api' = [pc |-> "ready", cors |-> cors, routes |-> <<>>,
               http_method |-> "", path |-> <<>>, called |-> <<>>,
               status_code |-> 0]
    /\ UNCHANGED exceptApi

\* @app.route(rule, method): the route is appended, its method upper-cased
\* by Route.__init__; what is kept of the latest resolve() is dropped
Route(method, rule) ==
    /\ api.pc = "ready"
    /\ Len(api.routes) < MaxRoutes
    /\ api' = [api EXCEPT
                  !.routes = Append(@, [method |-> Upper(method), rule |-> rule]),
                  !.http_method = "", !.path = <<>>, !.called = <<>>,
                  !.status_code = 0]
    /\ UNCHANGED exceptApi

\* app.resolve(event, context); a route function returns a dict, which
\* _to_response turns into a response of status 200
Resolve(http_method, path) ==
    LET method == Upper(http_method)
        route == ResolveFrom(api.routes, 1, method, path)
    IN
      /\ api.pc = "ready"
      /\ api' = [api EXCEPT
                    !.http_method = http_method, !.path = path,
                    !.called = IF route = 0 THEN <<>> ELSE <<route>>,
                    !.status_code = IF route = 0
                                    THEN NotFound(api.cors, method)
                                    ELSE 200]
      /\ UNCHANGED exceptApi

NextApi ==
    \/ \E cors \in BOOLEAN : ApiInit(cors)
    \/ \E method \in RouteMethods, rule \in Rules : Route(method, rule)
    \/ \E http_method \in HttpMethods, path \in Paths :
          Resolve(http_method, path)

SpecApi == Init /\ [][NextApi]_vars

(***************************************************************************)
(* Properties.                                                             *)
(***************************************************************************)
Handlers == {p \in Procs : kind[p] = "idempotent" /\ pc[p] # "idle"}

\* save_inprogress of the running handle() attempt succeeded
Owner(p) ==
    /\ kind[p] = "idempotent"
    /\ pc[p] \in {"call_handler", "save_success", "delete_record"}

\* the check of save_inprogress found an INPROGRESS record that is not expired
MetLiveInProgress(p) == met[p] \in {"inprogress_no_expiry", "inprogress_live"}

\* C1: in calls made one after the other, a call of the decorated handler
\* that finds the COMPLETED record of its key, while that record is neither
\* expired nor deleted, does not run the wrapped function and returns the
\* stored result.
C1_StoredResultReturned ==
    \A p \in Handlers :
        (pc[p] = "done" /\ met[p] = "completed" /\ ~removed[p])
            => /\ invoked[p] = 0
               /\ outcome[p].type = Returned
               /\ data_attr \in DOMAIN store[KeyOf(p)]
               /\ outcome[p].value = JsonLoads(store[KeyOf(p)][data_attr])

C1_Witness ==
    \E p \in Handlers :
        /\ pc[p] = "done" /\ met[p] = "completed" /\ ~removed[p]
        /\ outcome[p].type = Returned

\* C2: two concurrent invocations on one key never both have save_inprogress
\* succeed (stated while no record can have reached its TTL).
C2_MutualExclusion ==
    \A p, q \in Procs :
        (p # q /\ KeyOf(p) = KeyOf(q) /\ now < ExpiresAfter)
            => ~(Owner(p) /\ Owner(q))

\* C3: on the backend with the atomic conditional put, a save_inprogress
\* that meets a live record raises ItemAlreadyExists, so that two
\* invocations on one key never both own it unless the record was deleted or
\* has expired in between; and the invocation that lost against an
\* INPROGRESS record and reads it as INPROGRESS ends in
\* AlreadyInProgressError without running the wrapped function.
C3_ConditionalPutExclusive ==
    /\ \A p \in Procs :
          Owner(p) => met[p] \in {"absent", "released", "expired",
                                   "inprogress_expired"}
    /\ \A p, q \in Procs :
          (p # q /\ KeyOf(p) = KeyOf(q) /\ Owner(p) /\ Owner(q)
             /\ ~removed[p] /\ ~removed[q]) => now > ExpiresAfter
    /\ \A p \in Handlers :
          (pc[p] = "done" /\ seen[p] = INPROGRESS)
              => /\ outcome[p].type = AlreadyInProgressError
                 /\ invoked[p] = 0

C3_Witness ==
    \E p, q \in Procs :
        /\ p # q /\ KeyOf(p) = KeyOf(q)
        /\ Owner(q) /\ met[q] \in {"absent", "released"}
        /\ kind[p] = "idempotent" /\ pc[p] = "done"
        /\ met[p] = "inprogress_no_expiry" /\ seen[p] = INPROGRESS
        /\ outcome[p].type = AlreadyInProgressError

\* C4: a caller that meets a live INPROGRESS record does not run the wrapped
\* function, and while the record of a key is neither expired nor deleted
\* all callers are returned the same result.
C4_OneResultPerKey ==
    /\ \A p \in Handlers :
          (pc[p] = "done" /\ MetLiveInProgress(p) /\ ~removed[p])
              => invoked[p] = 0
    /\ \A p, q \in Handlers :
          (/\ pc[p] = "done" /\ pc[q] = "done" /\ KeyOf(p) = KeyOf(q)
           /\ ~removed[p] /\ ~removed[q]
           /\ outcome[p].type = Returned /\ outcome[q].type = Returned)
              => outcome[p].value = outcome[q].value

\* C5: in calls made one after the other, when the exception of the wrapped
\* function reaches the caller the record of the key is deleted, and a call
\* of the decorated handler that finds no record for its key (never written,
\* or removed by delete_record and not written since) runs the wrapped
\* function once and ends with the function's own output or exception.
C5_ReleasedKeyRunsAgain ==
    /\ [][\A p \in Procs :
             (/\ kind[p] = "idempotent" /\ pc[p] # "done" /\ pc'[p] = "done"
              /\ outcome'[p].type = HandlerException)
                 => ~Exists(store'[KeyOf(p)])]_vars
    /\ [](\A p \in Handlers :
             (pc[p] = "done" /\ met[p] \in {"absent", "released"})
                 => /\ invoked[p] = 1
                    /\ outcome[p].type \in {Returned, HandlerException}
                    /\ outcome[p].type = Returned
                          => outcome[p].value = response[p])

\* delete_record removed the record of the key, and the next call on the key
\* ran the wrapped function and returned its output
C5_Witness ==
    \E p \in Handlers :
        /\ pc[p] = "done" /\ met[p] = "released" /\ ~removed[p]
        /\ invoked[p] = 1 /\ outcome[p].type = Returned

C7_PutOnlyWhenFree ==
    \A p \in Procs :
        pc[p] \in {"hset", "expire"}
            => met[p] \in {"absent", "released", "inprogress_expiring",
                           "inprogress_expired"}

\* C8: get_record of a key without record raises
\* IdempotencyItemNotFoundError.
C8_AbsentIsItemNotFound ==
    \A p \in Procs :
        (pc[p] = "done" /\ kind[p] = "get_record" /\ seen[p] = "absent")
            => outcome[p].type = ItemNotFoundError

\* C9: an attempt whose get_record finds the record gone raises
\* InconsistentStateError and handle() runs again: the call ends on such an
\* attempt only when it was the last one allowed.
C9_GoneRecordRetried ==
    \A p \in Handlers :
        (pc[p] = "done" /\ seen[p] = "absent")
            => /\ outcome[p].type = InconsistentStateError
               /\ attempt[p] = max_handler_retries + 1

\* C10: one call runs handle() at most 3 times, begins another attempt only
\* after an attempt ended in InconsistentStateError, lets every other
\* exception end the call, and raises the third consecutive
\* InconsistentStateError.
C10_BoundedRetry ==
    \A p \in Handlers :
        /\ attempt[p] \in 1 .. (max_handler_retries + 1)
        /\ (attempt[p] > 1 /\ pc[p] # "done") => lastExc[p] = InconsistentStateError
        /\ (pc[p] = "done" /\ lastExc[p] # InconsistentStateError)
              => outcome[p].type = lastExc[p]
        /\ (pc[p] = "done" /\ lastExc[p] = InconsistentStateError)
              => /\ attempt[p] = max_handler_retries + 1
                 /\ outcome[p].type = InconsistentStateError

C10_Witness ==
    \E p \in Handlers :
        /\ pc[p] = "done" /\ attempt[p] = max_handler_retries + 1
        /\ outcome[p].type = InconsistentStateError

\* C11: the step of a call of the decorated handler in which get_record,
\* called after save_inprogress raised ItemAlreadyExists, returns a record of
\* status INPROGRESS ends the call in IdempotencyAlreadyInProgressError: the
\* wrapped function has not run, no further attempt begins and the store is
\* left as it was.
C11_InProgressIsFatal ==
    [][\A p \in Procs :
          (/\ kind[p] = "idempotent" /\ pc[p] = "get_record"
           /\ pc'[p] # "get_record" /\ seen'[p] = INPROGRESS)
             => /\ pc'[p] = "done"
                /\ outcome'[p].type = AlreadyInProgressError
                /\ invoked'[p] = 0
                /\ attempt'[p] = attempt[p]
                /\ store' = store
                /\ ttl' = ttl]_vars

C11_Witness ==
    \E p \in Handlers :
        /\ pc[p] = "done" /\ met[p] = "inprogress_live" /\ seen[p] = INPROGRESS
        /\ outcome[p].type = AlreadyInProgressError /\ invoked[p] = 0
        /\ store[KeyOf(p)][status_attr] = INPROGRESS

\* the record of the key of p is live (COMPLETED, or INPROGRESS with no
\* in_progress_expiry in the past) and holds another payload hash than the
\* call of p
LiveMismatch(p) ==
    LET item == store[KeyOf(p)] IN
      /\ Exists(item)
      /\ \/ item[status_attr] = COMPLETED
         \/ in_progress_expiry_attr \notin DOMAIN item
         \/ item[in_progress_expiry_attr] > now
      /\ StrGet(item, validation_key_attr) # HashedPayload(body[p])

\* C12: with payload validation, a call of the decorated handler on a key
\* whose live record holds another payload hash never gets to write the
\* record, and the call whose get_record finds the other hash ends in
\* IdempotencyValidationError, unwrapped, in its first attempt and without
\* running the wrapped function.
C12_MismatchIsValidationError ==
    \A p \in Handlers :
        /\ pc[p] = "hset" => ~LiveMismatch(p)
        /\ (pc[p] = "done" /\ seen[p] = "mismatch")
              => /\ outcome[p].type = ValidationError
                 /\ outcome[p].cause = ""
                 /\ invoked[p] = 0
                 /\ attempt[p] = 1

\* the step in which the call of the decorated handler p, whose wrapped
\* function raised, leaves delete_record
LeavesDeleteRecord(p) ==
    /\ kind[p] = "idempotent"
    /\ pc[p] = "delete_record"
    /\ pc'[p] # "delete_record"

FunctionRaised(p) == pc[p] = "done" /\ invoked[p] = 1 /\ response[p] = 0

\* C14: in calls made one after the other, a call whose wrapped function
\* raised and whose record is still in the store (delete_record raised) ended
\* in IdempotencyPersistenceLayerError raised from the failure of
\* delete_record, in the attempt that ran the function, and the record it
\* left is INPROGRESS.
C14_DeleteFailureMasksException ==
    \A p \in Handlers :
        (FunctionRaised(p) /\ Exists(store[KeyOf(p)]))
            => /\ outcome[p].type = PersistenceLayerError
               /\ outcome[p].cause = RedisError
               /\ lastExc[p] = PersistenceLayerError
               /\ store[KeyOf(p)][status_attr] = INPROGRESS

C14_Witness ==
    \E p \in Handlers :
        /\ FunctionRaised(p) /\ Exists(store[KeyOf(p)]) /\ ~removed[p]
        /\ outcome[p].type = PersistenceLayerError
        /\ store[KeyOf(p)][status_attr] = INPROGRESS

\* the exceptions of the persistence layer that handle() does not wrap
ExpectedLayerExceptions ==
    {ItemAlreadyExistsError, ItemNotFoundError, ValidationError,
     IdempotencyKeyError}

\* C15: when an operation of the persistence layer called by the decorated
\* handler raises any other exception, the call has ended in
\* IdempotencyPersistenceLayerError with that exception as its cause: no
\* further attempt begins and the wrapped function has run at most once.
C15_BackendExceptionWrapped ==
    \A p \in Handlers :
        (layerExc[p] # "" /\ layerExc[p] \notin ExpectedLayerExceptions)
            => /\ pc[p] = "done"
               /\ outcome[p].type = PersistenceLayerError
               /\ outcome[p].cause = layerExc[p]
               /\ lastExc[p] = PersistenceLayerError
               /\ invoked[p] <= 1

\* save_success failed after the wrapped function returned
C15_Witness ==
    \E p \in Handlers :
        /\ pc[p] = "done" /\ invoked[p] = 1 /\ response[p] \in Results
        /\ layerExc[p] = RedisError
        /\ outcome[p].type = PersistenceLayerError
        /\ outcome[p].cause = RedisError

\* C16 as stated: a call of the decorated handler ends in the result of the
\* wrapped function, a stored result, AlreadyInProgressError,
\* ValidationError, PersistenceLayerError or the exception of the function.
C16_SixOutcomes ==
    \A p \in Handlers :
        pc[p] = "done"
            => outcome[p].type \in {Returned, AlreadyInProgressError,
                                    ValidationError, PersistenceLayerError,
                                    HandlerException}

\* C16 amended: a call of the decorated handler ends in exactly one of: the
\* result of the wrapped function, which ran once; a stored result, the
\* function not having run; AlreadyInProgressError, ValidationError,
\* PersistenceLayerError, the exception of the function;
\* IdempotencyInconsistentStateError, raised by the last attempt allowed; or
\* IdempotencyKeyError, the function not having run.
C16_EightOutcomes ==
    \A p \in Handlers :
        pc[p] = "done"
            => \/ /\ outcome[p].type = Returned
                  /\ \/ invoked[p] = 1 /\ outcome[p].value = response[p]
                     \/ invoked[p] = 0 /\ seen[p] = COMPLETED
               \/ outcome[p].type \in {AlreadyInProgressError, ValidationError,
                                       PersistenceLayerError}
               \/ outcome[p].type = HandlerException /\ invoked[p] = 1
               \/ /\ outcome[p].type = InconsistentStateError
                  /\ attempt[p] = max_handler_retries + 1
               \/ outcome[p].type = IdempotencyKeyError /\ invoked[p] = 0

\* both added endings happen
C16_Witness ==
    \E p, q \in Handlers :
        /\ pc[p] = "done" /\ outcome[p].type = InconsistentStateError
        /\ pc[q] = "done" /\ outcome[q].type = IdempotencyKeyError

\* C17: the INPROGRESS record that handle() has save_inprogress write carries
\* an in_progress_expiry computed from the remaining execution time.
C17_RecordCarriesLease ==
    \A p \in Handlers :
        /\ pc[p] \in {"hset", "expire"} => in_progress_expiry[p] > now
        /\ (pc[p] = "expire" /\ ~removed[p])
              => /\ in_progress_expiry_attr \in DOMAIN store[KeyOf(p)]
                 /\ store[KeyOf(p)][in_progress_expiry_attr] = in_progress_expiry[p]

\* C18: the item of every key holds response data if and only if its status
\* is COMPLETED, and so does the DataRecord that get_record builds of it.
C18_DataIffCompleted ==
    \A k \in Keys :
        Exists(store[k])
            => /\ (data_attr \in DOMAIN store[k])
                     <=> (store[k][status_attr] = COMPLETED)
               /\ LET data_record == GetRecordOf(store[k], now) IN
                     data_record.exc = Returned
                        => ((data_record.response_data # PyNone)
                               <=> (data_record.status = COMPLETED))

\* C19: the layer is constructed on a client of either decode_responses
\* setting, and on it the call of the decorated handler that finds no record
\* runs the wrapped function and returns its result, and the call that finds
\* the COMPLETED record returns the stored result without running it.
C19_EitherClientWorks ==
    /\ Constructed
    /\ \A p \in Handlers :
          (pc[p] = "done" /\ ~removed[p])
             => /\ met[p] \in {"absent", "released"}
                      => /\ invoked[p] = 1
                         /\ outcome[p].type = Returned
                               => outcome[p].value = response[p]
                /\ met[p] = "completed"
                      => /\ invoked[p] = 0
                         /\ outcome[p].type = Returned
                         /\ outcome[p].value =
                               JsonLoads(store[KeyOf(p)][data_attr])

\* C20: when the idempotency key cannot be derived from the event while
\* the in-progress record is being saved, the step that leaves save_inprogress
\* ends the call with IdempotencyKeyError itself (no cause chained, so it was
\* not wrapped), within the same attempt (no retry), without having invoked
\* the function, and leaves the store and its expiries as they were
C20_KeyErrorUnwrapped ==
    [][\A p \in Procs :
          (/\ kind[p] = "idempotent"
           /\ pc[p] = "save_inprogress"
           /\ HashedIdempotencyKeyRaises(event[p])
           /\ pc'[p] # pc[p])
             => /\ pc'[p] = "done"
                /\ outcome'[p].type = IdempotencyKeyError
                /\ outcome'[p].cause = ""
                /\ attempt'[p] = attempt[p]
                /\ invoked'[p] = 0
                /\ store' = store
                /\ ttl' = ttl]_vars

\* a handler call whose event carries no key data has ended with
\* IdempotencyKeyError in its first attempt
C20_Witness ==
    \E p \in Handlers :
       /\ pc[p] = "done"
       /\ event[p] = NoKeyData
       /\ layerExc[p] = IdempotencyKeyError
       /\ outcome[p].type = IdempotencyKeyError
       /\ attempt[p] = 1
       /\ invoked[p] = 0

\* C21: the idempotency key is made of the identity of the wrapped function
\* and of the hash of the selected payload: two calls of decorated handlers
\* have the same key, and so the same record, exactly when they wrap the same
\* function and carry the same payload
C21_KeyPerFunctionAndPayload ==
    \A p, q \in Handlers :
       (KeyOf(p) = KeyOf(q))
          <=> (function[p] = function[q] /\ event[p] = event[q])

\* C22: every record of the store has an expiry: whenever a key holds a record
\* and no _put_record stands between its hset and its expire on that key,
\* the key has a deadline set by EXPIRE
C22_RecordHasExpiry ==
    \A k \in Keys :
       (/\ Exists(store[k])
        /\ \A p \in Procs : ~(pc[p] = "expire" /\ KeyOf(p) = k))
          => ttl[k] # NoTTL

\* the record get_record hands to the decorated handler of p is EXPIRED
ReadsExpired(p) ==
    /\ kind[p] = "idempotent"
    /\ pc[p] = "get_record"
    /\ ~HashedIdempotencyKeyRaises(event[p])
    /\ GetRecordOf(store[KeyOf(p)], now).exc = Returned
    /\ GetRecordOf(store[KeyOf(p)], now).status = EXPIRED
    /\ pc'[p] # pc[p]

\* C23 as stated: when save_inprogress raised ItemAlreadyExists and
\* get_record returns an EXPIRED record, the attempt ends with
\* IdempotencyInconsistentStateError and the wrapper runs handle() again; the
\* function is not run and no response is returned
C23_ExpiredAlwaysRetried ==
    [][\A p \in Procs :
          ReadsExpired(p)
             => /\ lastExc'[p] = InconsistentStateError
                /\ invoked'[p] = invoked[p]
                /\ pc'[p] = "save_inprogress"
                /\ attempt'[p] = attempt[p] + 1
                /\ outcome'[p] = outcome[p]]_vars

\* C23, amended: ... the attempt ends with IdempotencyInconsistentStateError;
\* the wrapper runs handle() again unless the attempt was the last one it
\* makes, in which case the exception reaches the caller; in either case the
\* function is not run and no response is returned
C23_ExpiredIsInconsistent ==
    [][\A p \in Procs :
          ReadsExpired(p)
             => /\ lastExc'[p] = InconsistentStateError
                /\ invoked'[p] = invoked[p]
                /\ IF attempt[p] - 1 # max_handler_retries
                   THEN /\ pc'[p] = "save_inprogress"
                        /\ attempt'[p] = attempt[p] + 1
                        /\ outcome'[p] = outcome[p]
                   ELSE /\ pc'[p] = "done"
                        /\ attempt'[p] = attempt[p]
                        /\ outcome'[p].type = InconsistentStateError]_vars

\* a decorated handler was handed an EXPIRED record and runs handle() again
C23_Witness ==
    \E p \in Handlers :
       /\ seen[p] = EXPIRED
       /\ met[p] \in {"completed", "inprogress_no_expiry", "inprogress_live"}
       /\ lastExc[p] = InconsistentStateError
       /\ pc[p] = "save_inprogress"
       /\ attempt[p] > 1
       /\ invoked[p] = 0

\* ... and one for which that attempt was the last
C23_WitnessLast ==
    \E p \in Handlers :
       /\ seen[p] = EXPIRED
       /\ pc[p] = "done"
       /\ attempt[p] = max_handler_retries + 1
       /\ outcome[p].type = InconsistentStateError

\* C24: save_success and delete_record of a decorated handler change the
\* record of its key only when that record is the INPROGRESS record the
\* handler created: a record they overwrite or delete is INPROGRESS, never
\* the COMPLETED record (the stored result) of another call, which is what
\* a handler still on its way to save_success or delete_record would find
\* after another call reclaimed its key and finished
C24_OnlyOwnRecordChanged ==
    [][\A p \in Procs :
          (/\ kind[p] = "idempotent"
           /\ pc[p] \in {"save_success", "delete_record"}
           /\ pc'[p] # pc[p]
           /\ Exists(store[KeyOf(p)])
           /\ store'[KeyOf(p)] # store[KeyOf(p)])
             => store[KeyOf(p)][status_attr] = INPROGRESS]_vars

C26_MixedBatchRejected ==
    (/\ appsync.pc = "ready"
     /\ appsync.batch
     /\ appsync.result # ""
     /\ Cardinality(FieldNames(appsync.event)) > 1)
        => /\ appsync.result = ValueError
           /\ appsync.calls = <<>>

\* C27: after resolve() has finished, whether it returned or raised, the
\* router context is empty
C27_ContextEmptyAfterResolve ==
    (appsync.pc = "ready" /\ appsync.result # "") => appsync.context = {}

\* the latest step is decorate ending an invocation of the handler
DecorateEnds == metrics.pc = "handler" /\ metrics'.pc = "idle"

C28_WitnessFlushRaises ==
    /\ metrics.pc = "idle"
    /\ metrics.flushes = 1
    /\ metrics.handler_exception = HandlerException
    /\ metrics.result = SchemaValidationError

BelowMax(m) ==
    /\ Cardinality(Names(m.metric_set)) < MAX_METRICS
    /\ \A n \in MetricNames : m.metric_set[n] < MAX_METRICS

\* C29 as stated: after any sequence of add_metric calls metric_set holds
\* fewer than MAX_METRICS names and no metric holds MAX_METRICS values
C29_BelowMaxMetrics == metrics.pc # "new" => BelowMax(metrics)

\* C29: on a provider whose serialize_metric_set does not raise (a
\* namespace is set and the service dimension can be added), metric_set
\* stays below MAX_METRICS names and below MAX_METRICS values per metric:
\* the add_metric that reaches either count prints the set and clears
\* metric_set, leaving metadata_set unchanged and dimension_set unchanged
\* but for the service dimension that serialize_metric_set adds
C29_AddMetricFlushesAtMax ==
    [][\A name \in MetricNames :
         (/\ AddMetric(name)
          /\ BelowMax(metrics)
          /\ metrics.namespace
          /\ ~ServiceDimensionRaises(metrics))
            => /\ BelowMax(metrics')
               /\ metrics'.metadata_set = metrics.metadata_set
               /\ LET added == [metrics.metric_set EXCEPT ![name] = @ + 1]
                  IN  IF \/ Cardinality(Names(added)) = MAX_METRICS
                         \/ added[name] = MAX_METRICS
                      THEN /\ metrics'.metric_set = EmptyMetricSet
                           /\ metrics'.printed = 1
                           /\ metrics'.dimension_set =
                                metrics.dimension_set \cup
                                  {d \in {ServiceDimension} : metrics.service}
                      ELSE /\ metrics'.metric_set = added
                           /\ metrics'.printed = 0
                           /\ metrics'.dimension_set = metrics.dimension_set]_vars

\* add_metric has printed and cleared the metrics and kept the dimensions
\* and the metadata
C29_Witness ==
    /\ metrics.pc # "new"
    /\ metrics.printed = 1
    /\ metrics.metric_set = EmptyMetricSet
    /\ metrics.dimension_set # {}
    /\ metrics.metadata_set # {}

\* C30: resolve() calls the first route, in registration order, whose
\* method is the upper-cased HTTP method of the request and whose rule
\* matches the whole path, and no other; when there is none it calls no
\* route and answers 404, or 204 to OPTIONS when CORS is configured
C30_FirstWholeMatchCalled ==
    (api.pc = "ready" /\ api.http_method # "") =>
      LET method == Upper(api.http_method)
          matching == {i \in DOMAIN api.routes :
                         /\ api.routes[i].method = method
                         /\ WholeMatch(api.routes[i].rule, api.path)}
      IN  IF matching = {}
          THEN /\ api.called = <<>>
               /\ api.status_code =
                    IF api.cors /\ method = "OPTIONS" THEN 204 ELSE 404
          ELSE api.called =
                 <<CHOOSE i \in matching : \A j \in matching : i <= j>>

====
